---- MODULE Spec2Model ----
(***************************************************************************)
(* A model of qttranslationgenerator: the placeholder codec                *)
(* (_ParsePythonFormat) and the translation run of                         *)
(* QtTranslationFileGenerator (cache load, message walk, backend call,     *)
(* document write, cache flush).                                           *)
(*                                                                         *)
(* Texts are sequences of one-character strings, so that scanning,         *)
(* slicing and replacing are computed the way the code computes them.      *)
(***************************************************************************)
EXTENDS Integers, Sequences, FiniteSets, TLC

\* ------------------------------------------------------------------ bounds
\* longest input text handed to _ParsePythonFormat in the codec specification
MaxLen == 5
\* longest translated text handed to reverse in the codec specification
MaxTransLen == 3
\* most messages of the source document of the run specification
MaxMsgs == 2
\* most translate() calls of one behaviour of the run specification
MaxRuns == 2

\* characters of the texts of the codec specification
Alphabet == {"{", "}", "0", "a"}

RECURSIVE StringsOfLen(_)
StringsOfLen(n) ==
    IF n = 0 THEN {<<>>}
    ELSE {Append(s, c) : s \in StringsOfLen(n - 1), c \in Alphabet}

Strings(n) == UNION {StringsOfLen(k) : k \in 0..n}

\* ------------------------------------------------------------- python values
\* Python's None where a text is expected: a value no text equals
None == <<"None">>

\* Python's None where a name (language code, path, attribute value) is expected
Nil == "None"

\* the empty dict, as a function with empty domain
EmptyDict == [k \in {} |-> <<>>]

DecimalDigits == <<"0", "1", "2", "3", "4", "5", "6", "7", "8", "9">>

IsDigit(c) == \E i \in 1..10 : DecimalDigits[i] = c

\* str(k) for a non-negative int
RECURSIVE str(_)
str(k) ==
    IF k < 10 THEN <<DecimalDigits[k + 1]>>
    ELSE str(k \div 10) \o <<DecimalDigits[(k % 10) + 1]>>

\* s.find(c, i): the first index >= i of character c in s, 0 when there is none
RECURSIVE IndexOf(_, _, _)
IndexOf(s, c, i) ==
    IF i > Len(s) THEN 0
    ELSE IF s[i] = c THEN i
    ELSE IndexOf(s, c, i + 1)

\* the first index >= i of s that holds no digit (Len(s) + 1 when all are digits)
RECURSIVE DigitsEnd(_, _)
DigitsEnd(s, i) ==
    IF i > Len(s) THEN i
    ELSE IF IsDigit(s[i]) THEN DigitsEnd(s, i + 1)
    ELSE i

\* s[a:b] with 1-based inclusive indices (empty when b < a)
Slice(s, a, b) == IF b < a THEN <<>> ELSE SubSeq(s, a, b)

\* the last index >= i of character c in s, 0 when there is none
RECURSIVE LastIndexOf(_, _, _)
LastIndexOf(s, c, i) ==
    IF i > Len(s) THEN 0
    ELSE LET later == LastIndexOf(s, c, i + 1) IN
         IF later # 0 THEN later
         ELSE IF s[i] = c THEN i ELSE 0

\* regex_any for the greedy pattern "{(.*)}": the match runs to the last "}"
regex_any_greedy(s, pos) ==
    LET o == IndexOf(s, "{", pos) IN
    IF o = 0 THEN <<>>
    ELSE LET c == LastIndexOf(s, "}", o + 1) IN
         IF c = 0 THEN <<>> ELSE <<o, c>>

\* _regex_any = "{([^}]*)}" searched from position pos: <<open, close>>, the
\* indices of the braces of the leftmost match, or <<>> when nothing matches.
\* The leftmost "{" with a "}" after it matches, up to the first such "}".
regex_any(s, pos) ==
    LET o == IndexOf(s, "{", pos) IN
    IF o = 0 THEN <<>>
    ELSE LET c == IndexOf(s, "}", o + 1) IN
         IF c = 0 THEN <<>> ELSE <<o, c>>

\* _regex_number = "{([0-9]*)}" searched from position pos: <<open, close>> of
\* the leftmost "{", a (possibly empty) run of digits, "}".
RECURSIVE regex_number(_, _)
regex_number(s, pos) ==
    LET o == IndexOf(s, "{", pos) IN
    IF o = 0 THEN <<>>
    ELSE LET e == DigitsEnd(s, o + 1) IN
         IF e <= Len(s) /\ s[e] = "}" THEN <<o, e>>
         ELSE regex_number(s, o + 1)

\* ------------------------------------------------------- _ParsePythonFormat
\* the loop of __init__: k matches done, prev the first index still to copy,
\* pos the index the next search starts at
RECURSIVE ParseLoop(_, _, _, _, _, _)
ParseLoop(input, k, prev, pos, output, mapping) ==
    LET m == regex_any(input, pos) IN
    IF m = <<>>
    THEN [input |-> input,
          mapping |-> mapping,
          output |-> output \o Slice(input, prev, Len(input))]
    ELSE ParseLoop(input, k + 1, m[2], m[2] + 1,
                   output \o Slice(input, prev, m[1]) \o str(k),
                   (str(k) :> Slice(input, m[1] + 1, m[2] - 1)) @@ mapping)

\* ParseLoop with prev = match.end() instead of match.end(1): the closing
\* brace of every placeholder is lost from the output
RECURSIVE ParseLoop_prevAfterBrace(_, _, _, _, _, _)
ParseLoop_prevAfterBrace(input, k, prev, pos, output, mapping) ==
    LET m == regex_any(input, pos) IN
    IF m = <<>>
    THEN [input |-> input,
          mapping |-> mapping,
          output |-> output \o Slice(input, prev, Len(input))]
    ELSE ParseLoop_prevAfterBrace(input, k + 1, m[2] + 1, m[2] + 1,
                   output \o Slice(input, prev, m[1]) \o str(k),
                   (str(k) :> Slice(input, m[1] + 1, m[2] - 1)) @@ mapping)

\* ParsePythonFormat built on that loop
ParsePythonFormat_prevAfterBrace(input) ==
    ParseLoop_prevAfterBrace(input, 0, 1, 1, <<>>, EmptyDict)

\* _ParsePythonFormat(input): the object with its input, _mapping and output
ParsePythonFormat(input) == ParseLoop(input, 0, 1, 1, <<>>, EmptyDict)

\* the loop of reverse; a token whose digits are no key of the mapping raises
\* KeyError (self._mapping[match[1]])
RECURSIVE ReverseLoop(_, _, _, _, _)
ReverseLoop(mapping, output, prev, pos, acc) ==
    LET m == regex_number(output, pos) IN
    IF m = <<>>
    THEN [exc |-> "none", text |-> acc \o Slice(output, prev, Len(output))]
    ELSE LET key == Slice(output, m[1] + 1, m[2] - 1) IN
         IF key \notin DOMAIN mapping
         THEN [exc |-> "KeyError", text |-> <<>>]
         ELSE ReverseLoop(mapping, output, m[2], m[2] + 1,
                          acc \o Slice(output, prev, m[1]) \o mapping[key])

\* parser.reverse(output): [exc, text]
reverse(parser, output) == ReverseLoop(parser.mapping, output, 1, 1, <<>>)

\* parser.has_format
has_format(parser) == Cardinality(DOMAIN parser.mapping) > 0

\* ------------------------------------------------ replace_special_characters
\* whether pat occurs in s at index i
StartsWithAt(s, pat, i) ==
    /\ i + Len(pat) - 1 <= Len(s)
    /\ SubSeq(s, i, i + Len(pat) - 1) = pat

\* str.replace(old, new): every non-overlapping occurrence, leftmost first
RECURSIVE ReplaceFrom(_, _, _, _)
ReplaceFrom(s, old, new, i) ==
    IF i > Len(s) THEN <<>>
    ELSE IF StartsWithAt(s, old, i)
         THEN new \o ReplaceFrom(s, old, new, i + Len(old))
         ELSE <<s[i]>> \o ReplaceFrom(s, old, new, i + 1)

replace(s, old, new) == ReplaceFrom(s, old, new, 1)

\* the six replacements, in the order of the code; "\&" is the two characters
\* backslash and ampersand
replace_special_characters(str_in) ==
    LET s1 == replace(str_in, <<"&", "q", "u", "o", "t", ";">>, <<"\"">>)
        s2 == replace(s1, <<"&", "a", "p", "o", "s", ";">>, <<"'">>)
        s3 == replace(s2, <<"&", "l", "t", ";">>, <<"<">>)
        s4 == replace(s3, <<"&", "g", "t", ";">>, <<">">>)
        s5 == replace(s4, <<"&", "a", "m", "p", ";">>, <<"\\", "&">>)
    IN  replace(s5, <<"&">>, <<>>)

\* ------------------------------------------------------------ dict helpers
\* DictSet that keeps no other entry
DictSet_replaceAll(d, k, v) == [x \in {k} |-> v]

\* d[k] = v
DictSet(d, k, v) == [x \in DOMAIN d \cup {k} |-> IF x = k THEN v ELSE d[x]]

\* ------------------------------------------------------- the run's universe
\* language_dict: the codes the table knows
language_dict == {"de", "fr"}

\* the destination codes a caller passes: the known ones and an unknown one
LangCodes == language_dict \cup {"xx"}

\* the cache_file arguments a caller passes: no cache file, or the path "c"
CacheArgs == {Nil, "c"}

\* source texts of the messages
T_a == <<"a">>
T_amp_a == <<"&", "a">>
T_x == <<"{", "x", "}">>
T_entity == <<"&", "a", "m", "p", ";">>

\* file contents that are no mapping: no such file, a JSON value that is not a
\* flat str -> str dict (here {"a": null}, a dict with a value that is no
\* string), a file opened for writing and not yet written in full
Absent == [kind |-> "absent", map |-> EmptyDict]
Corrupt == [kind |-> "corrupt", map |-> (T_a :> None)]
Partial == [kind |-> "partial", map |-> EmptyDict]

\* a file holding the JSON form of the str -> str dict d
JsonFile(d) == [kind |-> "dict", map |-> d]

\* a cache file left by earlier use: one entry, whose value holds a token
PreMap == JsonFile(T_x :> <<"{", "0", "}">>)

\* no generated file
NoDoc == [kind |-> "absent", msgs |-> <<>>]

\* a message of the document. ctx: the root child it lies in has tag 'context';
\* source: the text of its source element (None: no element or no text);
\* hasTr: it has a translation element; type: the type attribute of that
\* element (None: no attribute); text: the text of that element
Msg(ctx, source, hasTr, type, text) ==
    [ctx |-> ctx, source |-> source, hasTr |-> hasTr, type |-> type, text |-> text]

MsgKinds ==
    { Msg(TRUE, T_a, TRUE, "unfinished", None),
      Msg(TRUE, T_amp_a, TRUE, "unfinished", <<>>),
      Msg(TRUE, T_x, TRUE, "unfinished", None),
      Msg(TRUE, T_entity, TRUE, "unfinished", None),
      Msg(TRUE, None, TRUE, "unfinished", None),
      Msg(TRUE, T_a, FALSE, Nil, None),
      Msg(TRUE, T_a, TRUE, Nil, None),
      Msg(TRUE, T_a, TRUE, "unfinished", <<"b">>),
      Msg(TRUE, T_a, TRUE, "obsolete", None),
      Msg(FALSE, T_a, TRUE, "unfinished", None) }

RECURSIVE DocsOfLen(_)
DocsOfLen(n) ==
    IF n = 0 THEN {<<>>}
    ELSE {Append(d, m) : d \in DocsOfLen(n - 1), m \in MsgKinds}

\* the source documents: the messages of the file in document order
Docs == UNION {DocsOfLen(n) : n \in 0..MaxMsgs}

\* what google_translator.translate(text).text may be when the call returns:
\* the text unchanged, an empty text, or the token {0}
BackendResults(text) == {text, <<>>, <<"{", "0", "}">>}

\* Eligible without the test of the translation text
Eligible_ignoreText(m) ==
    /\ m.hasTr
    /\ m.type # Nil
    /\ m.type = "unfinished"

\* the condition of __parse_message_node under which a message is translated
Eligible(m) ==
    /\ m.hasTr
    /\ m.type # Nil
    /\ m.type = "unfinished"
    /\ m.text \in {<<>>, None}

\* ---------------------------------------------------------------- the state
VARIABLES
    \* codec specification: one _ParsePythonFormat object and one reverse call
    cpc,        \* "off" | "new" | "parsed" | "reversed"
    input,      \* the text given to the constructor
    parser,     \* the constructed object, NoParser before construction
    rtext,      \* the text given to reverse
    rres,       \* what reverse did: [exc, text]
    \* run specification: one QtTranslationFileGenerator and its files
    pc,                     \* where translate() is
    srcDoc,                 \* the file at src_translation_file_path
    outDoc,                 \* the generated file, Absent before it is written
    cacheFile,              \* the file at path "c"
    tmpFile,                \* the file at path "c.tmp"
    translated_text_map,    \* self.translated_text_map
    dest_lang_code,         \* argument of the current call
    cache_file,             \* argument of the current call
    tree,                   \* the parsed document of the current call
    i,                      \* index in tree of the next message of the walk
    exc,                    \* the exception the current call raised, or "none"
    runs,                   \* translate() calls started so far
    loaded,                 \* the mapping the current call read from its cache file
    trace                   \* what the walk of the current call did, per message

codecVars == <<cpc, input, parser, rtext, rres>>

fileVars == <<srcDoc, outDoc, cacheFile, tmpFile>>

callVars == <<dest_lang_code, cache_file, tree, i, exc, runs, loaded, trace>>

runVars == <<pc, srcDoc, outDoc, cacheFile, tmpFile, translated_text_map,
             dest_lang_code, cache_file, tree, i, exc, runs, loaded, trace>>

vars == <<cpc, input, parser, rtext, rres,
          pc, srcDoc, outDoc, cacheFile, tmpFile, translated_text_map,
          dest_lang_code, cache_file, tree, i, exc, runs, loaded, trace>>

NoResult == [exc |-> "none", text |-> <<>>]

\* no _ParsePythonFormat object constructed yet
NoParser == [input |-> <<>>, mapping |-> EmptyDict, output |-> <<>>]

\* one entry of trace: what the walk did with message idx. kind is "skip",
\* "hit", "fresh", "sleep" (the delay after a fresh translation),
\* "backend_raise", "codec_raise" or "source_raise"; key the
\* normalized source text; sent and got the backend's argument and result
Event(kind, idx, key, sent, got) ==
    [kind |-> kind, idx |-> idx, key |-> key, sent |-> sent, got |-> got]

\* the state of the run specification in which nothing has been called
RunIdle ==
    /\ pc = "idle"
    /\ outDoc = NoDoc
    /\ tmpFile = Absent
    /\ translated_text_map = EmptyDict
    /\ dest_lang_code = Nil
    /\ cache_file = Nil
    /\ tree = <<>>
    /\ i = 0
    /\ exc = "none"
    /\ runs = 0
    /\ loaded = EmptyDict
    /\ trace = <<>>

CodecOff ==
    /\ cpc = "off"
    /\ input = <<>>
    /\ parser = NoParser
    /\ rtext = <<>>
    /\ rres = NoResult

\* ------------------------------------------------------ codec specification
InitCodec ==
    /\ cpc = "new"
    /\ input \in Strings(MaxLen)
    /\ parser = NoParser
    /\ rtext = <<>>
    /\ rres = NoResult
    /\ RunIdle
    /\ srcDoc = <<>>
    /\ cacheFile = Absent

\* parser = _ParsePythonFormat(input)
Construct ==
    /\ cpc = "new"
    /\ parser' = ParsePythonFormat(input)
    /\ cpc' = "parsed"
    /\ UNCHANGED <<input, rtext, rres>>
    /\ UNCHANGED runVars

\* parser.reverse(parser.output): the backend returned the masked text as is
ReverseUnmodified ==
    /\ cpc = "parsed"
    /\ rtext' = parser.output
    /\ rres' = reverse(parser, parser.output)
    /\ cpc' = "reversed"
    /\ UNCHANGED <<input, parser>>
    /\ UNCHANGED runVars

\* parser.reverse(t) for a translated text t of the backend's choosing
ReverseTranslated ==
    /\ cpc = "parsed"
    /\ \E t \in Strings(MaxTransLen) :
          /\ rtext' = t
          /\ rres' = reverse(parser, t)
    /\ cpc' = "reversed"
    /\ UNCHANGED <<input, parser>>
    /\ UNCHANGED runVars

NextCodec == Construct \/ ReverseUnmodified \/ ReverseTranslated

SpecCodec == InitCodec /\ [][NextCodec]_vars

\* -------------------------------------------------------- run specification
InitRun ==
    /\ CodecOff
    /\ RunIdle
    /\ srcDoc \in Docs
    /\ cacheFile \in {Absent, PreMap, Corrupt}

\* os.path.isfile(cache_file) of a call given cache-file argument cf
CacheFileExists(cf) == cf # Nil /\ cacheFile # Absent

\* whether json.load or the assertions on its result fail
CacheLoadFails(cf) == CacheFileExists(cf) /\ cacheFile \in {Corrupt, Partial}

\* MapAfterLoad that assigns what json.load returned before it is checked
MapAfterLoad_assignFirst(cf) ==
    IF CacheFileExists(cf) THEN cacheFile.map ELSE translated_text_map

\* self.translated_text_map after the cache load of a call: the assignment of
\* line 86 is reached only when the load and the assertions passed
MapAfterLoad(cf) ==
    IF CacheFileExists(cf) /\ ~CacheLoadFails(cf) THEN cacheFile.map
    ELSE translated_text_map

\* LanguageKnown that accepts every code
LanguageKnown_any(dest) == dest = dest

\* language_dict[dest_lang_code] raises no KeyError
LanguageKnown(dest) == dest \in language_dict

\* translate(dest, cf) up to the parse of the source document: the cache load,
\* the language check, the parse
translate(dest, cf) ==
    /\ pc \in {"idle", "done", "failed"}
    /\ runs < MaxRuns
    /\ runs' = runs + 1
    /\ dest_lang_code' = dest
    /\ cache_file' = cf
    /\ trace' = <<>>
    /\ IF CacheLoadFails(cf)
       THEN /\ exc' = IF cacheFile = Corrupt THEN "AssertionError"
                      ELSE "JSONDecodeError"
            /\ pc' = "failed"
            /\ loaded' = EmptyDict
            /\ tree' = <<>>
            /\ i' = 0
            /\ translated_text_map' = MapAfterLoad(cf)
       ELSE /\ translated_text_map' = MapAfterLoad(cf)
            /\ loaded' = IF CacheFileExists(cf) THEN cacheFile.map ELSE EmptyDict
            /\ IF ~LanguageKnown(dest)
               THEN /\ exc' = "LookupError"
                    /\ pc' = "failed"
                    /\ tree' = <<>>
                    /\ i' = 0
               ELSE /\ exc' = "none"
                    /\ pc' = "walk"
                    /\ tree' = srcDoc
                    /\ i' = 1
    /\ UNCHANGED <<fileVars, codecVars>>

\* the walk is at message tree[i]
AtMessage == pc = "walk" /\ i <= Len(tree)

\* the walk moves on to the next message
Advance(ev) ==
    /\ i' = i + 1
    /\ trace' = Append(trace, ev)
    /\ UNCHANGED <<pc, exc>>

\* FreshDone without the delay: the walk goes straight on
FreshDone_noSleep(ev) ==
    /\ i' = i + 1
    /\ trace' = Append(trace, ev)
    /\ UNCHANGED <<pc, exc>>

\* the end of a fresh translation: the results are stored and the handler is
\* at time.sleep(1), the next message not yet examined
FreshDone(ev) ==
    /\ i' = i + 1
    /\ trace' = Append(trace, ev)
    /\ pc' = "sleep"
    /\ UNCHANGED exc

\* Raise that prints the exception and goes on with the next message
Raise_swallow(e, ev) ==
    /\ i' = i + 1
    /\ trace' = Append(trace, ev)
    /\ UNCHANGED <<pc, exc, tree, translated_text_map>>

\* the exception e leaves the walk, __translate and translate
Raise(e, ev) ==
    /\ pc' = "failed"
    /\ exc' = e
    /\ trace' = Append(trace, ev)
    /\ UNCHANGED <<i, tree, translated_text_map>>

\* __translate: a root child whose tag is not 'context' is passed over
SkipNonContext ==
    /\ AtMessage
    /\ ~tree[i].ctx
    /\ Advance(Event("skip", i, None, None, None))
    /\ UNCHANGED <<tree, translated_text_map>>
    /\ UNCHANGED <<dest_lang_code, cache_file, runs, loaded, fileVars, codecVars>>

\* __parse_message_node on a message that is not to be translated
SkipMessage ==
    /\ AtMessage
    /\ tree[i].ctx
    /\ ~Eligible(tree[i])
    /\ Advance(Event("skip", i, None, None, None))
    /\ UNCHANGED <<tree, translated_text_map>>
    /\ UNCHANGED <<dest_lang_code, cache_file, runs, loaded, fileVars, codecVars>>

\* __parse_message_node on a message to translate that has no source text:
\* replace_special_characters(None) raises
SourceRaises ==
    /\ AtMessage
    /\ tree[i].ctx
    /\ Eligible(tree[i])
    /\ tree[i].source = None
    /\ Raise("AttributeError", Event("source_raise", i, None, None, None))
    /\ UNCHANGED <<dest_lang_code, cache_file, runs, loaded, fileVars, codecVars>>

\* the message at the walk's position is to be translated and has a source text
AtTranslatable ==
    /\ AtMessage
    /\ tree[i].ctx
    /\ Eligible(tree[i])
    /\ tree[i].source # None

\* source_text of the message at the walk's position
SourceText == replace_special_characters(tree[i].source)

\* SetTranslation that leaves the message as it is
SetTranslation_noWrite(t, n, text) == t

\* SetTranslation that also marks the message as finished
SetTranslation_finish(t, n, text) ==
    [t EXCEPT ![n].text = text, ![n].type = "finished"]

\* translate_node.text = text on message n of document t
SetTranslation(t, n, text) == [t EXCEPT ![n].text = text]

\* CachedText that runs the cached value through the placeholder codec
CachedText_decoded(source_text) ==
    reverse(ParsePythonFormat(source_text), translated_text_map[source_text]).text

\* the text written to the message on a cache hit
CachedText(source_text) == translated_text_map[source_text]

\* __parse_message_node, source_text in self.translated_text_map
CacheHit ==
    /\ AtTranslatable
    /\ SourceText \in DOMAIN translated_text_map
    /\ tree' = SetTranslation(tree, i, CachedText(SourceText))
    /\ Advance(Event("hit", i, SourceText, None, None))
    /\ UNCHANGED translated_text_map
    /\ UNCHANGED <<dest_lang_code, cache_file, runs, loaded, fileVars, codecVars>>

\* __parse_message_node, source_text not in the map, the backend returns got
TranslateFresh ==
    /\ AtTranslatable
    /\ SourceText \notin DOMAIN translated_text_map
    /\ LET placeholder == ParsePythonFormat(SourceText) IN
       \E got \in BackendResults(placeholder.output) :
          LET r == reverse(placeholder, got) IN
          IF r.exc = "none"
          THEN /\ tree' = SetTranslation(tree, i, r.text)
               /\ translated_text_map' =
                      DictSet(translated_text_map, SourceText, r.text)
               /\ FreshDone(Event("fresh", i, SourceText, placeholder.output, got))
          ELSE Raise(r.exc,
                     Event("codec_raise", i, SourceText, placeholder.output, got))
    /\ UNCHANGED <<dest_lang_code, cache_file, runs, loaded, fileVars, codecVars>>

\* time.sleep(1) after a fresh translation returns; the walk goes on
Sleep ==
    /\ pc = "sleep"
    /\ pc' = "walk"
    /\ trace' = Append(trace, Event("sleep", i - 1, None, None, None))
    /\ UNCHANGED <<i, exc, tree, translated_text_map>>
    /\ UNCHANGED <<dest_lang_code, cache_file, runs, loaded, fileVars, codecVars>>

\* __parse_message_node, source_text not in the map, the backend call raises
BackendRaises ==
    /\ AtTranslatable
    /\ SourceText \notin DOMAIN translated_text_map
    /\ LET placeholder == ParsePythonFormat(SourceText) IN
       Raise("BackendError",
             Event("backend_raise", i, SourceText, placeholder.output, None))
    /\ UNCHANGED <<dest_lang_code, cache_file, runs, loaded, fileVars, codecVars>>

\* __translate after the walk: tree.write(generated file)
WriteDocument ==
    /\ pc = "walk"
    /\ i > Len(tree)
    /\ outDoc' = [kind |-> "doc", msgs |-> tree]
    /\ pc' = IF cache_file # Nil THEN "open_tmp" ELSE "done"
    /\ UNCHANGED <<srcDoc, cacheFile, tmpFile, translated_text_map>>
    /\ UNCHANGED <<callVars, codecVars>>

\* FlushOpen that opens the cache file itself for writing
FlushOpen_inPlace ==
    /\ pc = "open_tmp"
    /\ cacheFile' = Partial
    /\ pc' = "dump"
    /\ UNCHANGED <<srcDoc, outDoc, tmpFile, translated_text_map>>
    /\ UNCHANGED <<callVars, codecVars>>

\* open(tmp_cache_file, "w"): the temporary file exists and is empty
FlushOpen ==
    /\ pc = "open_tmp"
    /\ tmpFile' = Partial
    /\ pc' = "dump"
    /\ UNCHANGED <<srcDoc, outDoc, cacheFile, translated_text_map>>
    /\ UNCHANGED <<callVars, codecVars>>

\* json.dump(self.translated_text_map, f) and the close of the file
FlushDump ==
    /\ pc = "dump"
    /\ tmpFile' = JsonFile(translated_text_map)
    /\ pc' = "rename"
    /\ UNCHANGED <<srcDoc, outDoc, cacheFile, translated_text_map>>
    /\ UNCHANGED <<callVars, codecVars>>

\* os.rename(tmp_cache_file, cache_file)
FlushRename ==
    /\ pc = "rename"
    /\ cacheFile' = tmpFile
    /\ tmpFile' = Absent
    /\ pc' = "done"
    /\ UNCHANGED <<srcDoc, outDoc, translated_text_map>>
    /\ UNCHANGED <<callVars, codecVars>>

Next ==
    \/ \E dest \in LangCodes, cf \in CacheArgs : translate(dest, cf)
    \/ SkipNonContext
    \/ SkipMessage
    \/ SourceRaises
    \/ CacheHit
    \/ TranslateFresh
    \/ Sleep
    \/ BackendRaises
    \/ WriteDocument
    \/ FlushOpen
    \/ FlushDump
    \/ FlushRename

Spec == InitRun /\ [][Next]_vars

\* ------------------------------------- runs on the generated document
\* what elementTree.parse reads back from a file tree.write wrote: an element
\* whose text is "" is written without content and read back without text
Reparsed(msgs) ==
    [n \in 1..Len(msgs) |->
        IF msgs[n].text = <<>> THEN [msgs[n] EXCEPT !.text = None] ELSE msgs[n]]

\* QtTranslationFileGenerator(path of the generated file): a new object, with an
\* empty translated_text_map, whose source document is the file the completed
\* call wrote and whose own generated file does not exist yet
Rerun ==
    /\ pc = "done"
    /\ runs < MaxRuns
    /\ srcDoc' = Reparsed(outDoc.msgs)
    /\ outDoc' = NoDoc
    /\ translated_text_map' = EmptyDict
    /\ pc' = "idle"
    /\ dest_lang_code' = Nil
    /\ cache_file' = Nil
    /\ tree' = <<>>
    /\ i' = 0
    /\ exc' = "none"
    /\ loaded' = EmptyDict
    /\ trace' = <<>>
    /\ UNCHANGED <<cacheFile, tmpFile, runs, codecVars>>

\* every generator is called once, with a known language, and a completed call
\* is followed by a generator on its generated file
NextRerun ==
    \/ /\ pc = "idle"
       /\ \E dest \in language_dict, cf \in CacheArgs : translate(dest, cf)
    \/ SkipNonContext
    \/ SkipMessage
    \/ SourceRaises
    \/ CacheHit
    \/ TranslateFresh
    \/ Sleep
    \/ BackendRaises
    \/ WriteDocument
    \/ FlushOpen
    \/ FlushDump
    \/ FlushRename
    \/ Rerun

SpecRerun == InitRun /\ [][NextRerun]_vars

\* ------------------------------------------------------------------ claims
\* helpers of the formulas below

\* the kinds of trace entries in which the backend was called
CallKinds == {"fresh", "backend_raise", "codec_raise"}

\* the kinds of trace entries in which processing a message raised
RaiseKinds == {"backend_raise", "codec_raise", "source_raise"}

\* the trace entries of the current call in which the backend was called with
\* normalized source text k
CallsFor(k) == {n \in 1..Len(trace) : trace[n].kind \in CallKinds /\ trace[n].key = k}

\* a message of a context that the claims call eligible: a translation element,
\* type present and "unfinished", text empty or absent
ClaimEligible(m) ==
    m.ctx /\ m.hasTr /\ m.type = "unfinished" /\ (m.text = <<>> \/ m.text = None)

\* the positions of the source document whose message is eligible and has a
\* source text
Translatable == {n \in 1..Len(srcDoc) : ClaimEligible(srcDoc[n]) /\ srcDoc[n].source # None}

\* the normalized source text of message n of the source document
KeyOf(n) == replace_special_characters(srcDoc[n].source)

\* the last entry of the trace
LastEvent == trace[Len(trace)]

\* C1: round trip of the placeholder codec: reverse applied to the unmodified
\* output of _ParsePythonFormat(s), with the map built for s, returns s exactly
\* and raises nothing, for every text s
C1_RoundTrip ==
    (cpc = "reversed" /\ rtext = parser.output)
        => (rres.exc = "none" /\ rres.text = input)

\* C1 witness: a text with two placeholders, renumbered by the encoding, has
\* been decoded from its unmodified masked text
C1_Witness ==
    /\ cpc = "reversed"
    /\ rtext = parser.output
    /\ Cardinality(DOMAIN parser.mapping) = 2
    /\ parser.output # input
    /\ rres.text = input

\* C2: decode never fails on an unknown token: whatever the map and the
\* translated text, reverse returns normally
C2_DecodeNeverFails ==
    cpc = "reversed" => rres.exc = "none"

\* C3: durability after each success: while a run with a cache file goes on
\* (or has failed), every entry a fresh translation of this run added is in
\* the cache file on disk
C3_DurableAfterEachSuccess ==
    (pc \in {"walk", "sleep", "failed"} /\ cache_file # Nil)
        => \A n \in 1..Len(trace) :
              trace[n].kind = "fresh"
                  => /\ cacheFile.kind = "dict"
                     /\ trace[n].key \in DOMAIN cacheFile.map
                     /\ cacheFile.map[trace[n].key] = translated_text_map[trace[n].key]

\* C4: cache idempotence within a run: for a normalized source text shared by
\* two or more eligible messages the backend is called at most once, never
\* when the text is in the loaded cache, exactly once in a completed run when
\* it is not, and all those messages carry the same translation text
C4_CacheIdempotence ==
    \A a \in Translatable : \A b \in Translatable :
        (a # b /\ KeyOf(a) = KeyOf(b) /\ pc \in {"walk", "sleep", "open_tmp", "dump", "rename", "done", "failed"})
            => /\ Cardinality(CallsFor(KeyOf(a))) <= 1
               /\ KeyOf(a) \in DOMAIN loaded => CallsFor(KeyOf(a)) = {}
               /\ (pc = "done" /\ KeyOf(a) \notin DOMAIN loaded)
                      => Cardinality(CallsFor(KeyOf(a))) = 1
               /\ pc = "done" => tree[a].text = tree[b].text

\* what C5 asks of one step
C5_Step ==
    (AtTranslatable /\ SourceText \in DOMAIN translated_text_map)
        => /\ tree' = [tree EXCEPT ![i].text = translated_text_map[SourceText]]
           /\ translated_text_map' = translated_text_map
           /\ Len(trace') = Len(trace) + 1
           /\ trace'[Len(trace')].kind = "hit"
           /\ pc' = "walk"
           /\ i' = i + 1
           /\ UNCHANGED fileVars

\* C5: a cache hit has no side effect beyond the message: when the walk is at
\* an eligible message whose normalized source text is a key of the cache, its
\* step sets the message's translation text to exactly the cached value,
\* calls no backend, and changes neither the cache nor any file nor any
\* other message
C5_CacheHitFrame == [][C5_Step]_vars

\* C5 witness: a cache hit has served a cached value that holds a token, and
\* the message carries it as it is
C5_Witness ==
    /\ pc = "walk"
    /\ trace # <<>>
    /\ LastEvent.kind = "hit"
    /\ tree[LastEvent.idx].text = <<"{", "0", "}">>
    /\ translated_text_map[LastEvent.key] = <<"{", "0", "}">>

\* what C6 asks of one step
C6_Step ==
    (AtMessage /\ tree[i].ctx)
        => /\ Len(trace') = Len(trace) + 1
           /\ trace'[Len(trace')].idx = i
           /\ IF ClaimEligible(tree[i])
              THEN \/ /\ trace'[Len(trace')].kind \in {"hit", "fresh"}
                      /\ tree'[i].text = translated_text_map'[SourceText]
                      /\ tree'[i].text # None
                      /\ i' = i + 1
                   \/ /\ trace'[Len(trace')].kind \in RaiseKinds
                      /\ pc' = "failed"
                      /\ tree' = tree
              ELSE /\ trace'[Len(trace')].kind = "skip"
                   /\ tree' = tree
                   /\ translated_text_map' = translated_text_map
                   /\ i' = i + 1
                   /\ pc' = "walk"
                   /\ UNCHANGED fileVars

\* C6: eligibility filter: the step of the walk at a message of a context
\* processes it (cache lookup or backend call, and the text written unless
\* the processing raises) if the message is eligible, and otherwise leaves the
\* document, the cache and the files unchanged and calls no backend
C6_EligibilityFilter == [][C6_Step]_vars

\* C6 witness: the walk has passed over an unfinished message with a text and
\* then translated an eligible one
C6_Witness ==
    /\ Len(trace) = 2
    /\ trace[1].kind = "skip"
    /\ tree[1].ctx /\ tree[1].type = "unfinished" /\ tree[1].text = <<"b">>
    /\ trace[2].kind = "fresh"
    /\ tree[2].text = <<"a">>

\* C7: per-language cache scoping: every translation text a run writes from
\* the cache was loaded from the cache file given to that run or produced by
\* a backend call of that run; a run that loads nothing starts empty
C7_PerRunCache ==
    \A n \in 1..Len(trace) :
        trace[n].kind = "hit"
            => \/ trace[n].key \in DOMAIN loaded
               \/ \E m \in 1..(n - 1) :
                     trace[m].kind = "fresh" /\ trace[m].key = trace[n].key

\* what C8 asks of one state
C8_Raised ==
    \A n \in 1..Len(trace) :
        trace[n].kind \in RaiseKinds
            => (n = Len(trace) /\ pc = "failed" /\ exc # "none")

\* what C8 asks of one step
C8_Step ==
    pc = "failed"
        => /\ runs' = runs + 1
           /\ UNCHANGED fileVars

\* C8: a translation failure aborts the run: an entry of the trace in which
\* processing raised is the last one, the call is in its failed state with
\* the exception pending, and from the failed state nothing happens but
\* another call of translate, with no file written
C8_FailureAborts == [](C8_Raised) /\ [][C8_Step]_vars

\* C8 witness: the backend raised on the first of two messages, the second
\* was never reached, and no document was written
C8_Witness ==
    /\ pc = "failed"
    /\ exc = "BackendError"
    /\ Len(tree) = 2
    /\ Len(trace) = 1
    /\ ClaimEligible(tree[2])
    /\ outDoc = NoDoc

\* what C9 asks of one step
C9_Step ==
    cacheFile' # cacheFile
        => /\ pc = "rename"
           /\ tmpFile = JsonFile(translated_text_map)
           /\ cacheFile' = tmpFile

\* C9: atomic cache persistence: the cache file is never a partial write, and
\* it changes only by the rename of the completely written temporary file
\* holding the whole current mapping
C9_AtomicPersistence == [](cacheFile.kind # "partial") /\ [][C9_Step]_vars

\* C9 witness: between the write of the temporary file and the rename, the
\* cache file still holds the previously persisted mapping and the temporary
\* file the new one
C9_Witness ==
    /\ pc = "rename"
    /\ cacheFile = PreMap
    /\ tmpFile.kind = "dict"
    /\ tmpFile # cacheFile

\* the text of trace entry n after the placeholders are put back, for an entry
\* of a backend call that returned
Restored(n) == reverse(ParsePythonFormat(trace[n].key), trace[n].got).text

\* C10: end-to-end result of a completed run that loaded no cache and was
\* given a cache file path: every eligible message's translation text in the
\* output document is the placeholder-restored result of a backend call of
\* this run for its normalized source text, and the cache file holds exactly
\* the normalized source texts of the eligible messages, each mapped to that
\* text
C10_EndToEnd ==
    (pc = "done" /\ cache_file # Nil /\ loaded = EmptyDict)
        => /\ outDoc.kind = "doc"
           /\ cacheFile.kind = "dict"
           /\ DOMAIN cacheFile.map = {KeyOf(n) : n \in Translatable}
           /\ \A n \in Translatable :
                 /\ \E m \in 1..Len(trace) :
                       /\ trace[m].kind = "fresh"
                       /\ trace[m].key = KeyOf(n)
                       /\ outDoc.msgs[n].text = Restored(m)
                 /\ cacheFile.map[KeyOf(n)] = outDoc.msgs[n].text

\* ---- C11
\* whether position p of text s holds a brace of either kind
IsBrace(s, p) == s[p] = "{" \/ s[p] = "}"

\* the positions of s at which a span of a left-to-right, non-nested scan
\* opens: a "{" with a "}" somewhere after it that does not lie inside an
\* earlier span, that is, whose nearest brace to the left, if any, is a "}"
SpanOpens(s) ==
    {o \in 1..Len(s) :
        /\ s[o] = "{"
        /\ \E c \in (o + 1)..Len(s) : s[c] = "}"
        /\ \A p \in 1..(o - 1) :
              s[p] = "{" => \E q \in (p + 1)..(o - 1) : s[q] = "}"}

\* the position of the "}" that closes the span opening at o
SpanClose(s, o) == CHOOSE c \in (o + 1)..Len(s) :
                      s[c] = "}" /\ \A q \in (o + 1)..(c - 1) : s[q] # "}"

\* the number of spans opening before position p
SpansBefore(s, p) == Cardinality({o \in SpanOpens(s) : o < p})

\* whether position p lies strictly between the braces of a span
InsideSpan(s, p) == \E o \in SpanOpens(s) : o < p /\ p < SpanClose(s, o)

\* the masked text the claim describes, from position p on: the inner text of
\* every span is replaced by its scan index, everything else is copied
RECURSIVE MaskedFrom(_, _)
MaskedFrom(s, p) ==
    IF p > Len(s) THEN <<>>
    ELSE IF InsideSpan(s, p) THEN MaskedFrom(s, p + 1)
    ELSE IF p \in SpanOpens(s)
         THEN <<"{">> \o str(SpansBefore(s, p)) \o MaskedFrom(s, p + 1)
         ELSE <<s[p]>> \o MaskedFrom(s, p + 1)

\* C11: encode numbers placeholders by scan order: the k-th (0-based) {...}
\* span of a left-to-right, non-nested scan of the input is replaced in the
\* output by the token {k}, map[str(k)] is its exact inner text, all text
\* outside the spans is copied unchanged, and with no span the map is empty
\* and the output equals the input
C11_EncodeByScanOrder ==
    cpc \in {"parsed", "reversed"}
        => /\ DOMAIN parser.mapping =
                  {str(SpansBefore(input, o)) : o \in SpanOpens(input)}
           /\ \A o \in SpanOpens(input) :
                 parser.mapping[str(SpansBefore(input, o))] =
                     Slice(input, o + 1, SpanClose(input, o) - 1)
           /\ parser.output = MaskedFrom(input, 1)
           /\ SpanOpens(input) = {}
                  => (parser.mapping = EmptyDict /\ parser.output = input)

\* C11 witness: a text of two spans, the first with a named inner text and the
\* second with an empty one, has been encoded
C11_Witness ==
    /\ cpc = "parsed"
    /\ input = <<"{", "a", "}", "{", "}">>
    /\ parser.output = <<"{", "0", "}", "{", "1", "}">>
    /\ parser.mapping[<<"0">>] = <<"a">>
    /\ parser.mapping[<<"1">>] = <<>>

\* ---- C12
\* the position of the "}" that ends a token {d} opening at position o of text
\* s with d a key of mapping, 0 when no such token opens at o
TokenClose(mapping, s, o) ==
    IF o > Len(s) \/ s[o] # "{" THEN 0
    ELSE LET e == IndexOf(s, "}", o + 1) IN
         IF e # 0 /\ Slice(s, o + 1, e - 1) \in DOMAIN mapping THEN e ELSE 0

\* the decoded text the claim describes, from position p on: every token {d}
\* with d a key becomes {mapping[d]}, everything else is copied
RECURSIVE DecodedFrom(_, _, _)
DecodedFrom(mapping, s, p) ==
    IF p > Len(s) THEN <<>>
    ELSE LET e == TokenClose(mapping, s, p) IN
         IF e # 0
         THEN <<"{">> \o mapping[Slice(s, p + 1, e - 1)] \o <<"}">>
                  \o DecodedFrom(mapping, s, e + 1)
         ELSE <<s[p]>> \o DecodedFrom(mapping, s, p + 1)

\* C12: decode resolves each token independently of order and count: for every
\* translated text and map, reverse returns the text in which every occurrence
\* of a token {d} with d a key of the map is replaced by {map[d]} and all text
\* outside those tokens is passed through verbatim
C12_DecodeIndependent ==
    cpc = "reversed"
        => /\ rres.exc = "none"
           /\ rres.text = DecodedFrom(parser.mapping, rtext, 1)

\* ---- C13
\* the current call was given a destination code that the table does not hold
UnknownLanguageCall == runs > 0 /\ dest_lang_code \notin language_dict

\* the current call was given a cache file whose load fails; a failed call
\* leaves the file as the load found it
LoadFailed == cache_file # Nil /\ cacheFile.kind \in {"corrupt", "partial"}

\* a call with an unknown destination code has not read the source document and
\* has made no backend call
C13_Untouched == pc = "failed" /\ i = 0 /\ tree = <<>> /\ trace = <<>>

\* no step of or into a call with an unknown destination code writes a file
C13_Step ==
    (runs' > 0 /\ dest_lang_code' \notin language_dict) => UNCHANGED fileVars

\* C13: unknown destination language fails before the document is touched: when
\* dest_lang_code is not a key of the language table, translate raises a
\* lookup error and, in that call, the source document is not read, no
\* backend call is made, and neither the output document nor the cache file is
\* written
C13_UnknownLanguage ==
    /\ [](UnknownLanguageCall => (C13_Untouched /\ exc = "LookupError"))
    /\ [][C13_Step]_vars

\* C13 as amended: when dest_lang_code is not a key of the language table,
\* translate fails, with a lookup error unless the load of the cache file
\* failed first (then with the error of the load), and in that call the
\* source document is not read, no backend call is made, and neither the
\* output document nor the cache file is written
C13_UnknownLanguageAmended ==
    /\ [](UnknownLanguageCall
              => /\ C13_Untouched
                 /\ IF LoadFailed
                    THEN exc \in {"AssertionError", "JSONDecodeError"}
                    ELSE exc = "LookupError")
    /\ [][C13_Step]_vars

\* C13 witness: a second call, with an unknown code and a loadable cache file,
\* has raised the lookup error; the document written by the first call and
\* the cache file are as that call left them, and the source document holds
\* a message to translate
C13_Witness ==
    /\ runs = 2
    /\ pc = "failed"
    /\ exc = "LookupError"
    /\ cache_file = "c"
    /\ cacheFile.kind = "dict"
    /\ outDoc.kind = "doc"
    /\ Translatable # {}
    /\ i = 0

\* ---- C14
\* the current call was given a cache file that exists and holds no flat
\* str -> str mapping
CorruptCacheCall == runs > 0 /\ cache_file # Nil /\ cacheFile.kind = "corrupt"

\* what C14 asks of one step: a step of or into such a call replaces neither
\* the in-memory cache nor any file
C14_Step ==
    (cache_file' # Nil /\ cacheFile.kind = "corrupt")
        => /\ translated_text_map' = translated_text_map
           /\ UNCHANGED fileVars

\* C14: a corrupt cache is fatal and harmless: when the cache file exists and
\* its content is not a flat mapping of strings to strings, translate fails
\* during the load, and in that call the in-memory cache is not replaced by
\* the corrupt content, the document is not read, no backend call is made,
\* and neither the output document nor the cache file is written
C14_CorruptCacheFatal ==
    /\ [](CorruptCacheCall
              => /\ pc = "failed"
                 /\ exc = "AssertionError"
                 /\ i = 0 /\ tree = <<>> /\ trace = <<>>)
    /\ [][C14_Step]_vars

\* C14 witness: after a first call without cache file that translated a
\* message and wrote the document, a second call given the corrupt cache
\* file has failed; the in-memory cache still holds the first call's entry
C14_Witness ==
    /\ runs = 2
    /\ pc = "failed"
    /\ exc = "AssertionError"
    /\ cache_file = "c"
    /\ cacheFile = Corrupt
    /\ translated_text_map = (T_a :> T_a)
    /\ outDoc.kind = "doc"

\* ---- C15
\* the five entities and the characters the claim resolves them to
Entities ==
    { [name |-> <<"&", "q", "u", "o", "t", ";">>, char |-> <<"\"">>],
      [name |-> <<"&", "a", "p", "o", "s", ";">>, char |-> <<"'">>],
      [name |-> <<"&", "l", "t", ";">>, char |-> <<"<">>],
      [name |-> <<"&", "g", "t", ";">>, char |-> <<">">>],
      [name |-> <<"&", "a", "m", "p", ";">>, char |-> <<"\\", "&">>] }

\* the normalized text the claim describes, from position p on: an entity is
\* replaced by its characters, any other "&" is removed, the rest is copied
RECURSIVE NormalizedFrom(_, _)
NormalizedFrom(s, p) ==
    IF p > Len(s) THEN <<>>
    ELSE IF \E e \in Entities : StartsWithAt(s, e.name, p)
         THEN LET e == CHOOSE e \in Entities : StartsWithAt(s, e.name, p) IN
              e.char \o NormalizedFrom(s, p + Len(e.name))
         ELSE IF s[p] = "&" THEN NormalizedFrom(s, p + 1)
         ELSE <<s[p]>> \o NormalizedFrom(s, p + 1)

\* the kinds of trace entries of a message that was looked up in the cache
LookupKinds == {"hit", "fresh", "backend_raise", "codec_raise"}

\* C15: entity normalization: the source text of a processed message is
\* normalized by resolving &quot; &apos; &lt; &gt; to their characters and
\* &amp; to backslash-ampersand and by removing only the remaining bare "&",
\* and the resulting text is both the cache key and the input of the
\* placeholder codec
C15_EntityNormalization ==
    \A n \in 1..Len(trace) :
        trace[n].kind \in LookupKinds
            => /\ trace[n].key = NormalizedFrom(srcDoc[trace[n].idx].source, 1)
               /\ trace[n].kind \in CallKinds
                      => trace[n].sent = ParsePythonFormat(trace[n].key).output

\* ---- C16
\* the current call reached the document and has ended, normally or by an
\* exception that left the walk
RunEnded == pc \in {"done", "failed"} /\ i >= 1

\* the generated file holds the document as the current call mutated it
DocumentSerialized == outDoc = [kind |-> "doc", msgs |-> tree]

\* C16: end-of-run ordering: whenever a run ends, after all messages were
\* processed or upon early termination by a propagated exception, the mutated
\* document has been serialized to the output location and then the final
\* cache flush has been performed: the flush starts only once the document is
\* written, and at the end of the run the cache file holds the in-memory cache
C16_EndOfRunOrdering ==
    /\ pc \in {"open_tmp", "dump", "rename"} => DocumentSerialized
    /\ RunEnded
          => /\ DocumentSerialized
             /\ cache_file # Nil => cacheFile = JsonFile(translated_text_map)

\* ---- C17
\* the positions of the trace strictly between a and b that hold a delay
DelaysBetween(a, b) == {n \in (a + 1)..(b - 1) : trace[n].kind = "sleep"}

\* what C17 asks of one state
C17_State ==
    /\ \A a \in 1..Len(trace) : \A b \in (a + 1)..Len(trace) :
          (trace[a].kind \in CallKinds /\ trace[b].kind \in CallKinds)
              => Cardinality(DelaysBetween(a, b)) =
                     Cardinality({n \in a..(b - 1) : trace[n].kind \in CallKinds})
    /\ \A n \in 1..Len(trace) :
          trace[n].kind = "sleep"
              => /\ n > 1
                 /\ trace[n - 1].kind = "fresh"
                 /\ trace[n - 1].idx = trace[n].idx
    /\ pc = "sleep"
          => /\ LastEvent.kind = "fresh"
             /\ i = LastEvent.idx + 1
             /\ tree[LastEvent.idx].text = translated_text_map[LastEvent.key]

\* what C17 asks of one step: one step makes at most one backend call, a
\* backend call is made only when no delay is pending, and the delay changes
\* neither document nor cache nor files
C17_Step ==
    /\ Cardinality({n \in (Len(trace) + 1)..Len(trace') :
                       trace'[n].kind \in CallKinds}) <= 1
    /\ pc = "sleep"
          => /\ pc' = "walk"
             /\ Len(trace') = Len(trace) + 1
             /\ trace'[Len(trace')].kind = "sleep"
             /\ UNCHANGED <<i, tree, translated_text_map, fileVars>>

\* C17: rate limiting: between any two backend calls of a run there is exactly
\* one fixed delay per call made, applied after the call's result was written
\* to the message and the cache and before the next message is examined; no
\* delay follows a cache hit or a skipped message, and at most one backend
\* call is in flight at any time
C17_RateLimiting == [](C17_State) /\ [][C17_Step]_vars

\* C17 witness: two fresh translations of one run with exactly one delay
\* between them
C17_Witness ==
    /\ Len(trace) >= 3
    /\ trace[1].kind = "fresh"
    /\ trace[2].kind = "sleep"
    /\ trace[3].kind = "fresh"
    /\ pc = "sleep"

\* ---- C18
\* document d has the messages of the source document, in the same order, each
\* with its source text, its translation element and its type attribute as
\* they were, and with another translation text only where the source
\* document's message is eligible
SameButTexts(d) ==
    /\ Len(d) = Len(srcDoc)
    /\ \A n \in 1..Len(d) :
          /\ d[n].ctx = srcDoc[n].ctx
          /\ d[n].source = srcDoc[n].source
          /\ d[n].hasTr = srcDoc[n].hasTr
          /\ d[n].type = srcDoc[n].type
          /\ d[n].text # srcDoc[n].text => ClaimEligible(srcDoc[n])

\* the positions the current call has processed: a cache hit or a fresh
\* translation
Processed == {trace[n].idx : n \in {m \in 1..Len(trace) : trace[m].kind \in {"hit", "fresh"}}}

\* C18: frame of a run on the document: the source text and the type attribute
\* of every message are never modified (a translated message stays
\* unfinished), no context or message is created, deleted or reordered, and
\* the only change a run makes to the document is the translation text of
\* processed, eligible messages; this holds of the document in memory and of
\* the generated file
C18_DocumentFrame ==
    /\ i >= 1
          => /\ SameButTexts(tree)
             /\ \A n \in 1..Len(tree) :
                   tree[n].text # srcDoc[n].text => n \in Processed
    /\ outDoc.kind = "doc" => SameButTexts(outDoc.msgs)

\* C18 witness: a completed run translated the first message, which is still
\* unfinished and has its source text, and left the second, which is not
\* eligible, as it was; the generated file holds that document
C18_Witness ==
    /\ pc = "done"
    /\ Len(tree) = 2
    /\ tree[1].text # srcDoc[1].text
    /\ tree[1].type = "unfinished"
    /\ tree[1].source = srcDoc[1].source
    /\ ~ClaimEligible(srcDoc[2])
    /\ tree[2] = srcDoc[2]
    /\ outDoc.msgs = tree

\* ---- C19
\* what C19 asks of one step of a run after its cache load
C19_Step ==
    runs' = runs
        => /\ \A k \in DOMAIN translated_text_map :
                 /\ k \in DOMAIN translated_text_map'
                 /\ translated_text_map'[k] = translated_text_map[k]
           /\ translated_text_map' # translated_text_map
                 => /\ AtTranslatable
                    /\ SourceText \notin DOMAIN translated_text_map
                    /\ DOMAIN translated_text_map' =
                           DOMAIN translated_text_map \cup {SourceText}
                    /\ Len(trace') = Len(trace) + 1
                    /\ trace'[Len(trace')].kind = "fresh"
                    /\ trace'[Len(trace')].key = SourceText

\* C19: cache entries are write-once within a run: after the cache is loaded,
\* every key of the in-memory cache keeps its value until the run ends; an
\* entry is added only on a cache miss with a backend call that returned, and
\* no entry is removed or overwritten
C19_WriteOnce == [][C19_Step]_vars

\* C19 witness: a run that loaded one entry from its cache file has added a
\* second one by a fresh translation, and the loaded entry is as it was
C19_Witness ==
    /\ pc = "sleep"
    /\ loaded = PreMap.map
    /\ LastEvent.kind = "fresh"
    /\ LastEvent.key = T_a
    /\ DOMAIN translated_text_map = {T_x, T_a}
    /\ translated_text_map[T_x] = loaded[T_x]

\* ---- C20
\* no message of document d is eligible
NothingEligible(d) == \A n \in 1..Len(d) : ~ClaimEligible(d[n])

\* the current call runs on the document a completed call generated
OnGenerated == runs >= 2

\* the current call has made no backend call and no cache lookup and has
\* changed no translation text
OnlySkipped ==
    /\ \A n \in 1..Len(trace) : trace[n].kind = "skip"
    /\ i >= 1 => tree = srcDoc

\* every text the current call obtained for a message, from the cache or from
\* the backend with the placeholders put back, is non-empty
NoEmptyResult ==
    \A n \in 1..Len(trace) :
        trace[n].kind \in {"hit", "fresh"} => translated_text_map[trace[n].key] # <<>>

\* C20: a completed run leaves nothing to translate: for every document and
\* every backend result, an empty translated string included, after
\* translate completes normally no message of the output document is still
\* eligible, so a run on the output document makes no backend call and no
\* cache lookup and changes no translation text
C20_NothingLeft ==
    /\ pc = "done" => NothingEligible(outDoc.msgs)
    /\ OnGenerated => OnlySkipped

\* what the amended C20 asks of the step that starts work on the generated
\* document: it holds no eligible message when no result was empty
C20_Step ==
    (pc = "done" /\ pc' = "idle" /\ NoEmptyResult) => NothingEligible(srcDoc')

\* C20 as amended: for every document and every backend result such that no
\* translation text obtained in the run is empty, after translate completes
\* normally no message of the output document is still eligible, so a run on
\* the output document makes no backend call and no cache lookup and changes
\* no translation text
C20_NothingLeftAmended ==
    /\ []((pc = "done" /\ NoEmptyResult) => NothingEligible(outDoc.msgs))
    /\ [][C20_Step]_vars
    /\ []((OnGenerated /\ NothingEligible(srcDoc)) => OnlySkipped)

\* C20 witness: a run on the document a completed run generated has completed
\* too; both messages carry the texts the first run wrote, are still
\* unfinished and were passed over
C20_Witness ==
    /\ runs = 2
    /\ pc = "done"
    /\ Len(srcDoc) = 2
    /\ srcDoc[1].type = "unfinished" /\ srcDoc[1].text = T_a
    /\ srcDoc[2].type = "unfinished" /\ srcDoc[2].text = T_x
    /\ Len(trace) = 2
    /\ OnlySkipped
    /\ outDoc.msgs = srcDoc

====
